---- MODULE Spec2Model ----
(***************************************************************************)
(* Model of the langneg request matcher (src/langnegmatcher.go).           *)
(*                                                                         *)
(* Strings are sequences of one-character strings, so that splitting,      *)
(* joining and "contains no hyphen" are computed and not assumed.          *)
(*                                                                         *)
(* Matcher.Provision and Matcher.matchLanguage hand the negotiation to     *)
(* golang.org/x/text/language (language.Make, language.NewMatcher,         *)
(* language.MatchStrings, Tag.IsRoot/Base/Region/Script).  The operators   *)
(* below that carry those names follow that package as it is called from   *)
(* langnegmatcher.go, on the tags of the universe fixed here: languages    *)
(* de, en, fr (all of script Latn), two-letter regions, at most one        *)
(* offered tag and at most one range per language, canonical letter case.  *)
(***************************************************************************)
EXTENDS Integers, Sequences, FiniteSets, TLC

\* ------------------------------------------------------------------------
\* Strings
\* ------------------------------------------------------------------------

Empty == << >>

Digits == {"0", "1", "2", "3", "4", "5", "6", "7", "8", "9"}

Letters == {"a", "b", "c", "d", "e", "f", "g", "h", "i", "j", "k", "l", "m",
            "n", "o", "p", "q", "r", "s", "t", "u", "v", "w", "x", "y", "z",
            "A", "B", "C", "D", "E", "F", "G", "H", "I", "J", "K", "L", "M",
            "N", "O", "P", "Q", "R", "S", "T", "U", "V", "W", "X", "Y", "Z"}

Chars == Letters \cup Digits \cup {"-", ",", ";", "=", ".", " ", "*", "+", "_"}

Str == Seq(Chars)

DigitVal[c \in Digits] ==
  CASE c = "0" -> 0 [] c = "1" -> 1 [] c = "2" -> 2 [] c = "3" -> 3
    [] c = "4" -> 4 [] c = "5" -> 5 [] c = "6" -> 6 [] c = "7" -> 7
    [] c = "8" -> 8 [] c = "9" -> 9

\* strings.IndexByte: the first position of c in s, 0 when there is none.
IndexByte[s \in Str, c \in Chars] ==
  IF \E i \in 1..Len(s) : s[i] = c
    THEN CHOOSE i \in 1..Len(s) : s[i] = c /\ \A j \in 1..(i - 1) : s[j] # c
    ELSE 0

\* strings.TrimSpace, for the space character.
TrimLeft[s \in Str] == IF s # Empty /\ Head(s) = " " THEN TrimLeft[Tail(s)] ELSE s

TrimRight[s \in Str] ==
  IF s # Empty /\ s[Len(s)] = " " THEN TrimRight[SubSeq(s, 1, Len(s) - 1)] ELSE s

TrimSpace[s \in Str] == TrimRight[TrimLeft[s]]

\* strings.Join(parts, "-")
Join[parts \in Seq(Str)] ==
  IF parts = << >> THEN Empty
  ELSE IF Len(parts) = 1 THEN parts[1]
  ELSE parts[1] \o <<"-">> \o Join[Tail(parts)]

\* The subtags of s: s cut at every "-".
SplitHyphen[s \in Str] ==
  IF IndexByte[s, "-"] = 0 THEN <<s>>
  ELSE <<SubSeq(s, 1, IndexByte[s, "-"] - 1)>>
       \o SplitHyphen[SubSeq(s, IndexByte[s, "-"] + 1, Len(s))]

HasHyphen(s) == \E i \in 1..Len(s) : s[i] = "-"

AllIn(s, set) == \A i \in 1..Len(s) : s[i] \in set

\* ------------------------------------------------------------------------
\* Tags (language.Tag as used by Provision and matchLanguage)
\* ------------------------------------------------------------------------

\* language.Und, the tag Provision puts first in the supported list.  rg is
\* the region override ("-u-rg-xxzzzz") that the matcher may add to a result.
Und == [lang |-> Empty, script |-> Empty, region |-> Empty, rg |-> Empty]

Tags == [lang : Str, script : Str, region : Str, rg : Str]

KnownLanguages == {<<"d", "e">>, <<"e", "n">>, <<"f", "r">>}

KnownScripts == {<<"L", "a", "t", "n">>}

KnownRegions == {<<"D", "E">>, <<"A", "T">>, <<"U", "S">>, <<"A", "U">>, <<"F", "R">>}

\* The tag of the subtags parts: language[-script][-region]; anything else
\* is an error and leaves the tag Und.  "und" gives Und without error.
ParseSubtags[parts \in Seq(Str)] ==
  LET n == Len(parts)
      bad == [ok |-> FALSE, tag |-> Und]
      mk(l, sc, rg) == [ok |-> TRUE,
                        tag |-> [lang |-> l, script |-> sc, region |-> rg, rg |-> Empty]]
  IN IF n = 1 /\ parts[1] = <<"u", "n", "d">> THEN [ok |-> TRUE, tag |-> Und]
     ELSE IF parts[1] \notin KnownLanguages THEN bad
     ELSE IF n = 1 THEN mk(parts[1], Empty, Empty)
     ELSE IF n = 2 /\ parts[2] \in KnownScripts THEN mk(parts[1], parts[2], Empty)
     ELSE IF n = 2 /\ parts[2] \in KnownRegions THEN mk(parts[1], Empty, parts[2])
     ELSE IF n = 3 /\ parts[2] \in KnownScripts /\ parts[3] \in KnownRegions
       THEN mk(parts[1], parts[2], parts[3])
     ELSE bad

\* language.Parse
Parse[s \in Str] == ParseSubtags[SplitHyphen[s]]

\* language.Make: Parse with the error dropped.
Make(s) == Parse[s].tag

\* Tag.IsRoot: the tag equals Und and carries no extension.
IsRoot(t) == t = Und

\* Likely subtags of the languages of the universe (Tag.Maximize).
LikelyRegion(l) ==
  CASE l = <<"d", "e">> -> <<"D", "E">>
    [] l = <<"f", "r">> -> <<"F", "R">>
    [] OTHER -> <<"U", "S">>

Maximize(t) ==
  [lang |-> IF t.lang = Empty THEN <<"e", "n">> ELSE t.lang,
   script |-> IF t.script = Empty THEN <<"L", "a", "t", "n">> ELSE t.script,
   region |-> IF t.region = Empty THEN LikelyRegion(t.lang) ELSE t.region,
   rg |-> t.rg]

\* Tag.Base, Tag.Region, Tag.Script: the component and the confidence the
\* package has in it; Exact only for a component the tag itself holds.
Base(t) ==
  IF t.lang # Empty THEN [s |-> t.lang, c |-> "Exact"]
  ELSE [s |-> Maximize(t).lang,
        c |-> IF t.script = Empty /\ t.region = Empty THEN "Low" ELSE "High"]

Region(t) ==
  IF t.region # Empty THEN [s |-> t.region, c |-> "Exact"]
  ELSE [s |-> Maximize(t).region, c |-> "Low"]

Script(t) ==
  IF t.script # Empty THEN [s |-> t.script, c |-> "Exact"]
  ELSE [s |-> Maximize(t).script,
        c |-> IF t.lang = Empty THEN "Low" ELSE "High"]

\* ------------------------------------------------------------------------
\* language.ParseAcceptLanguage
\* ------------------------------------------------------------------------

\* split(s, c): the trimmed text before and after the first c.
split[s \in Str, c \in Chars] ==
  IF IndexByte[s, c] > 0
    THEN [head |-> TrimSpace[SubSeq(s, 1, IndexByte[s, c] - 1)],
          tail |-> TrimSpace[SubSeq(s, IndexByte[s, c] + 1, Len(s))]]
    ELSE [head |-> TrimSpace[s], tail |-> Empty]

\* consume(s, c): s without its first byte c, or "" when s does not start with c.
consume[s \in Str, c \in Chars] ==
  IF s = Empty \/ Head(s) # c THEN Empty ELSE TrimSpace[Tail(s)]

\* The digits of s as a number.
DecimalValue[s \in Seq(Digits)] ==
  IF s = Empty THEN 0
  ELSE 10 * DecimalValue[SubSeq(s, 1, Len(s) - 1)] + DigitVal[s[Len(s)]]

\* strconv.ParseFloat on decimal notation [sign] digits [. digits], in
\* thousandths (the weights of the universe have at most three decimals).
ParseFloat[s \in Str] ==
  LET neg == s # Empty /\ Head(s) = "-"
      body == IF s # Empty /\ Head(s) \in {"-", "+"} THEN Tail(s) ELSE s
      dot == IndexByte[body, "."]
      ip == IF dot = 0 THEN body ELSE SubSeq(body, 1, dot - 1)
      fp == IF dot = 0 THEN Empty ELSE SubSeq(body, dot + 1, Len(body))
      fp3 == SubSeq(fp \o <<"0", "0", "0">>, 1, 3)
      ok == /\ AllIn(ip, Digits) /\ AllIn(fp, Digits)
            /\ Len(ip) + Len(fp) > 0
            /\ Len(fp) <= 3
      mag == 1000 * DecimalValue[ip] + DecimalValue[fp3]
  IN IF ok THEN [ok |-> TRUE, w |-> IF neg THEN 0 - mag ELSE mag]
     ELSE [ok |-> FALSE, w |-> 0]

Ranges == [tag : Tags, q : Int]

\* sort.Stable(&tagSort{tag, q}): descending weight, equal weights keep
\* their order.  Insertion of x into an already sorted list.
InsertByWeight[x \in Ranges, sorted \in Seq(Ranges)] ==
  IF sorted = << >> THEN <<x>>
  ELSE IF Head(sorted).q >= x.q THEN <<Head(sorted)>> \o InsertByWeight[x, Tail(sorted)]
  ELSE <<x>> \o sorted

SortStable[l \in Seq(Ranges)] ==
  IF l = << >> THEN << >>
  ELSE InsertByWeight[l[Len(l)], SortStable[SubSeq(l, 1, Len(l) - 1)]]

\* Mutant of SortRanges: the ranges stay in header order.
SortRanges_Unsorted(l) == l

\* The order ParseAcceptLanguage leaves the kept ranges in.
SortRanges(l) == SortStable[l]

\* Mutant of InvalidWeight: a weight that is no number is let through, and
\* its entry is then dropped like one of weight 0.
InvalidWeight_Tolerant(f) == FALSE

\* Whether the weight text gave no number (errInvalidWeight).
InvalidWeight(f) == ~f.ok

\* acceptFallback: what an entry that is no tag may still stand for.
AcceptFallback(entry) == entry = <<"*">>

\* The entries of the header in order, as the loop of ParseAcceptLanguage
\* cuts them off with split(s, ','): trimmed, empty ones included.
Entries[s \in Str] ==
  IF s = Empty THEN << >>
  ELSE <<split[s, ","].head>> \o Entries[split[s, ","].tail]

\* The loop body on the tag text and the weight text of one entry: err when
\* the entry is no tag (and not "*") or its weight is no number, keep unless
\* the weight is <= 0.
ParseRange[t \in Str, weight \in Str] ==
  LET p == Parse[t]
      f == ParseFloat[consume[consume[weight, "q"], "="]]
      tg == IF p.ok THEN p.tag ELSE Und
  IN IF ~p.ok /\ ~AcceptFallback(t)
       THEN [err |-> TRUE, keep |-> FALSE, range |-> [tag |-> Und, q |-> 0]]
     ELSE IF weight = Empty
       THEN [err |-> FALSE, keep |-> TRUE, range |-> [tag |-> tg, q |-> 1000]]
     ELSE IF InvalidWeight(f)
       THEN [err |-> TRUE, keep |-> FALSE, range |-> [tag |-> Und, q |-> 0]]
     ELSE [err |-> FALSE, keep |-> f.w > 0, range |-> [tag |-> tg, q |-> f.w]]

\* One pass of the loop: an empty entry is skipped.
ParseEntry[entry \in Str] ==
  IF entry = Empty
    THEN [err |-> FALSE, keep |-> FALSE, range |-> [tag |-> Und, q |-> 0]]
    ELSE ParseRange[split[entry, ";"].head, split[entry, ";"].tail]

EntryResults == [err : BOOLEAN, keep : BOOLEAN, range : Ranges]

\* What the loop makes of each entry, in order.
ParsedEntries[es \in Seq(Str)] ==
  IF es = << >> THEN << >> ELSE <<ParseEntry[Head(es)]>> \o ParsedEntries[Tail(es)]

KeptRanges[ps \in Seq(EntryResults)] ==
  IF ps = << >> THEN << >>
  ELSE (IF Head(ps).keep THEN <<Head(ps).range>> ELSE << >>) \o KeptRanges[Tail(ps)]

\* The return of ParseAcceptLanguage: the first entry in error fails the
\* whole header; otherwise the kept ranges, sorted by descending weight.
ParseReturn[ps \in Seq(EntryResults)] ==
  IF \E i \in 1..Len(ps) : ps[i].err THEN [ok |-> FALSE, ranges |-> << >>]
  ELSE [ok |-> TRUE, ranges |-> SortRanges(KeptRanges[ps])]

ParseAcceptLanguage[s \in Str] == ParseReturn[ParsedEntries[Entries[s]]]

ParseResults == [ok : BOOLEAN, ranges : Seq(Ranges)]

\* ------------------------------------------------------------------------
\* language.NewMatcher / Matcher.Match / language.MatchStrings
\* ------------------------------------------------------------------------

Confidences == {"No", "Low", "High", "Exact"}

ConfRank(c) == CASE c = "No" -> 0 [] c = "Low" -> 1 [] c = "High" -> 2 [] c = "Exact" -> 3

\* equalsRest together with the language: the two tags are the same tag.
SameTag(a, b) == a.lang = b.lang /\ a.script = b.script /\ a.region = b.region

\* The confidence of supported tag have for desired tag w of the same
\* language (bestMatch.update): Exact when the tags are the same or maximize
\* to the same region, High across regions.  (All tags here maximize to the
\* script Latn, so the cross-script case does not arise.)
PairConfidence(have, w) ==
  IF SameTag(have, w) THEN "Exact"
  ELSE IF Maximize(have).region # Maximize(w).region THEN "High"
  ELSE "Exact"

\* The positions of supported whose tag has language l (matcher.index).
IndexOf(supported, l) == {i \in 1..Len(supported) : supported[i].lang = l}

Bests == [have : Nat, want : Tags, conf : Confidences, pinLanguage : BOOLEAN]

NoBest == [have |-> 0, want |-> Und, conf |-> "No", pinLanguage |-> FALSE]

\* bestMatch.update for the supported tag at position i.  pin: no later
\* desired tag has the language of w.  Once the language is pinned, a desired
\* tag of another language changes nothing; a higher confidence replaces the
\* best so far.
update[best \in Bests, have \in Tags, i \in Nat, w \in Tags, pin \in BOOLEAN] ==
  IF best.pinLanguage /\ w.lang # best.want.lang THEN best
  ELSE IF ConfRank(PairConfidence(have, w)) > ConfRank(best.conf)
    THEN [have |-> i, want |-> w, conf |-> PairConfidence(have, w), pinLanguage |-> pin]
  ELSE [best EXCEPT !.pinLanguage = pin]

\* update over the supported tags at positions from..Len(supported) that have
\* the language of w.
updateAll[best \in Bests, supported \in Seq(Tags), from \in Nat, w \in Tags, pin \in BOOLEAN] ==
  IF from > Len(supported) THEN best
  ELSE IF supported[from].lang # w.lang
    THEN updateAll[best, supported, from + 1, w, pin]
  ELSE updateAll[update[best, supported[from], from, w, pin], supported, from + 1, w, pin]

\* matcher.getBest over the desired tags want[k..]: a desired Und is matched
\* only by a supported Und, and then at once; a desired tag whose language
\* is not supported is skipped; an Exact match ends the search.
getBest[supported \in Seq(Tags), want \in Seq(Ranges), k \in Nat, best \in Bests] ==
  IF best.conf = "Exact" \/ k > Len(want) THEN best
  ELSE
    LET w == want[k].tag
        unds == {i \in IndexOf(supported, w.lang) : SameTag(supported[i], w)}
        pin == \A j \in (k + 1)..Len(want) : want[j].tag.lang # w.lang
    IN IF w.lang = Empty
         THEN IF unds # {}
                THEN [have |-> CHOOSE x \in unds : \A y \in unds : x <= y,
                      want |-> w, conf |-> "Exact", pinLanguage |-> FALSE]
                ELSE getBest[supported, want, k + 1, best]
       ELSE getBest[supported, want, k + 1, updateAll[best, supported, 1, w, pin]]

\* The return of matcher.Match for the best match b: the supported tag, or
\* the first supported tag when there is none; a region asked for and not
\* offered is kept as an override.
MatchReturn[supported \in Seq(Tags), want \in Seq(Ranges), b \in Bests] ==
  LET tt == IF b.have # 0 THEN supported[b.have] ELSE supported[1]
      w == IF b.have # 0 THEN b.want
           ELSE IF want # << >> THEN want[1].tag ELSE Und
  IN [tag |-> IF w.region # tt.region /\ w.region # Empty
                THEN [tt EXCEPT !.rg = w.region] ELSE tt,
      index |-> IF b.have # 0 THEN b.have - 1 ELSE 0,
      conf |-> b.conf]

\* matcher.Match
MatcherMatch[supported \in Seq(Tags), want \in Seq(Ranges)] ==
  MatchReturn[supported, want, getBest[supported, want, 1, NoBest]]

MatchResults == [tag : Tags, index : Nat, conf : Confidences]

\* The return of MatchStrings for the match m of the header's ranges: a
\* match of confidence No gives way to m.Match() of no desired tag.
PreferMatch[supported \in Seq(Tags), m \in MatchResults] ==
  IF m.conf # "No" THEN m ELSE MatcherMatch[supported, << >>]

\* MatchStrings for the parse p of the header: a header that does not parse
\* gives m.Match() of no desired tag.
MatchParsed[supported \in Seq(Tags), p \in ParseResults] ==
  IF p.ok THEN PreferMatch[supported, MatcherMatch[supported, p.ranges]]
  ELSE MatcherMatch[supported, << >>]

\* language.MatchStrings(m, headerValue)
MatchStrings[supported \in Seq(Tags), headerValue \in Str] ==
  MatchParsed[supported, ParseAcceptLanguage[headerValue]]

\* ------------------------------------------------------------------------
\* Inputs
\* ------------------------------------------------------------------------

MaxRequests == 2

Requests == 1..MaxRequests

de == <<"d", "e">>
en == <<"e", "n">>
fr == <<"f", "r">>
deDE == <<"d", "e", "-", "D", "E">>
deAT == <<"d", "e", "-", "A", "T">>
enUS == <<"e", "n", "-", "U", "S">>
enAU == <<"e", "n", "-", "A", "U">>
frFR == <<"f", "r", "-", "F", "R">>
deLatnDE == <<"d", "e", "-", "L", "a", "t", "n", "-", "D", "E">>
star == <<"*">>

\* The match_languages lists a Caddyfile may give.
OfferedLists ==
  { << >>, <<de, en>>, <<deDE, en>>, <<enUS>>, <<de, enUS>>, <<deLatnDE>> }

\* var_language and fallback_value; "" is the unset option.
VarNames == {Empty, <<"l", "n", "g">>}

FallbackValues == {Empty, enUS}

\* Accept-Language headers, each a list of entries: a range and the text
\* after ";q=" (NoQ: no weight parameter).  An absent header is "".
NoQ == <<"n", "o", "n", "e">>

E(t, q) == [t |-> t, q |-> q]

Headers ==
  << << >>,
     <<E(frFR, NoQ)>>,
     <<E(en, NoQ)>>,
     <<E(en, <<"0", ".", "4">>), E(de, <<"0", ".", "8">>)>>,
     <<E(deDE, NoQ)>>,
     <<E(enAU, NoQ)>>,
     <<E(star, NoQ)>>,
     <<E(en, <<"a", "b", "c">>), E(de, NoQ)>>,
     <<E(de, NoQ)>>,
     <<E(deAT, <<"0", ".", "9">>), E(enUS, <<"0", ".", "8">>)>>,
     <<E(deLatnDE, NoQ)>>,
     <<E(de, <<"-", "1">>), E(en, NoQ)>> >>

HeaderIds == 1..Len(Headers)

RenderEntry(e) == IF e.q = NoQ THEN e.t ELSE e.t \o <<";", "q", "=">> \o e.q

HeaderEntries == [t : Str, q : Str]

RenderHeader[es \in Seq(HeaderEntries)] ==
  IF es = << >> THEN Empty
  ELSE IF Len(es) = 1 THEN RenderEntry(es[1])
  ELSE RenderEntry(es[1]) \o <<",", " ">> \o RenderHeader[Tail(es)]

\* r.Header.Get("Accept-Language") of the request carrying header h.
HeaderGet[h \in HeaderIds] == RenderHeader[Headers[h]]

\* strconv.ParseBool on the full_locale argument.
ParseBool(s) ==
  IF s \in {<<"1">>, <<"t">>, <<"T">>, <<"t", "r", "u", "e">>,
            <<"T", "R", "U", "E">>, <<"T", "r", "u", "e">>}
    THEN [ok |-> TRUE, v |-> TRUE]
  ELSE IF s \in {<<"0">>, <<"f">>, <<"F">>, <<"f", "a", "l", "s", "e">>,
                 <<"F", "A", "L", "S", "E">>, <<"F", "a", "l", "s", "e">>}
    THEN [ok |-> TRUE, v |-> FALSE]
  ELSE [ok |-> FALSE, v |-> FALSE]

\* The full_locale arguments tried; "" stands for a block without the option.
FullLocaleArgs == {Empty, <<"t", "r", "u", "e">>, <<"f", "a", "l", "s", "e">>,
                   <<"y", "e", "s">>}

\* ------------------------------------------------------------------------
\* State
\* ------------------------------------------------------------------------

VARIABLES
  phase,            \* where the module is in its life: new, failed, unmarshalled,
                    \* provisioned, rejected (Validate failed), serving
  Config,           \* Matcher.Config
  LanguageMatcher,  \* Matcher.LanguageMatcher: the supported tags, Und first
  validateErr,      \* whether Validate returned an error
  pc,               \* per request: idle, decide (matchLanguage returned), done
  hdr,              \* per request: its Accept-Language header (0: none yet)
  languageMatch,    \* per request: Match's local languageMatch
  locale,           \* per request: Match's local locale
  tag,              \* per request: the tag MatchStrings returned
  engineRuns,       \* per request: whether matchLanguage was called
  ret,              \* per request: what Match returned
  reqVars           \* per request: the variables set on its context

vars == <<phase, Config, LanguageMatcher, validateErr, pc, hdr, languageMatch,
          locale, tag, engineRuns, ret, reqVars>>

reqState == <<pc, hdr, languageMatch, locale, tag, engineRuns, ret, reqVars>>

Configs == [MatchLanguages : Seq(Str), FullLocale : BOOLEAN, VarLanguage : Str,
            FallbackValue : Str]

ZeroConfig ==
  [MatchLanguages |-> << >>, FullLocale |-> FALSE, VarLanguage |-> Empty,
   FallbackValue |-> Empty]

Init ==
  /\ phase = "new"
  /\ Config = ZeroConfig
  /\ LanguageMatcher = << >>
  /\ validateErr = FALSE
  /\ pc = [r \in Requests |-> "idle"]
  /\ hdr = [r \in Requests |-> 0]
  /\ languageMatch = [r \in Requests |-> FALSE]
  /\ locale = [r \in Requests |-> Empty]
  /\ tag = [r \in Requests |-> Und]
  /\ engineRuns = [r \in Requests |-> FALSE]
  /\ ret = [r \in Requests |-> FALSE]
  /\ reqVars = [r \in Requests |-> {}]

\* ------------------------------------------------------------------------
\* Setup: UnmarshalCaddyfile, Provision, Validate
\* ------------------------------------------------------------------------

\* Config.UnmarshalFromCaddy over one block.  A full_locale argument that is
\* no boolean makes it fail, and UnmarshalCaddyfile then leaves Config alone.
UnmarshalFromCaddy(langs, full, var, fallback) ==
  LET b == ParseBool(full)
  IN IF full # Empty /\ ~b.ok THEN [ok |-> FALSE, cfg |-> ZeroConfig]
     ELSE [ok |-> TRUE,
           cfg |-> [MatchLanguages |-> langs,
                    FullLocale |-> IF full = Empty THEN FALSE ELSE b.v,
                    VarLanguage |-> var,
                    FallbackValue |-> fallback]]

UnmarshalCaddyfile ==
  /\ phase = "new"
  /\ \E langs \in OfferedLists, full \in FullLocaleArgs, var \in VarNames,
        fallback \in FallbackValues :
       LET u == UnmarshalFromCaddy(langs, full, var, fallback)
       IN /\ Config' = IF u.ok THEN u.cfg ELSE Config
          /\ phase' = IF u.ok THEN "unmarshalled" ELSE "failed"
  /\ UNCHANGED <<LanguageMatcher, validateErr, reqState>>

\* The supported tags Provision hands to language.NewMatcher.
MakeAll[ls \in Seq(Str)] ==
  IF ls = << >> THEN << >> ELSE <<Make(Head(ls))>> \o MakeAll[Tail(ls)]

MatchTLanguages(cfg) == <<Und>> \o MakeAll[cfg.MatchLanguages]

Provision ==
  /\ phase = "unmarshalled"
  /\ LanguageMatcher' = MatchTLanguages(Config)
  /\ phase' = "provisioned"
  /\ UNCHANGED <<Config, validateErr, reqState>>

\* Mutant of ValidateError: || for &&.
ValidateError_Or(cfg) == Len(cfg.MatchLanguages) = 0 \/ Len(cfg.VarLanguage) > 0

ValidateError(cfg) == Len(cfg.MatchLanguages) = 0 /\ Len(cfg.VarLanguage) > 0

Validate ==
  /\ phase = "provisioned"
  /\ validateErr' = ValidateError(Config)
  /\ phase' = IF ValidateError(Config) THEN "rejected" ELSE "serving"
  /\ UNCHANGED <<Config, LanguageMatcher, reqState>>

\* ------------------------------------------------------------------------
\* Requests: Match and matchLanguage
\* ------------------------------------------------------------------------

\* Mutant of FormatFull: the components in the order of a language tag,
\* script before region.
FormatFull_ScriptFirst(t) ==
  Join[(IF Base(t).c = "Exact" THEN <<Base(t).s>> ELSE << >>)
       \o (IF Script(t).c = "Exact" THEN <<Script(t).s>> ELSE << >>)
       \o (IF Region(t).c = "Exact" THEN <<Region(t).s>> ELSE << >>)]

\* The locale matchLanguage renders from a tag that is not Root.
FormatFull(t) ==
  Join[(IF Base(t).c = "Exact" THEN <<Base(t).s>> ELSE << >>)
       \o (IF Region(t).c = "Exact" THEN <<Region(t).s>> ELSE << >>)
       \o (IF Script(t).c = "Exact" THEN <<Script(t).s>> ELSE << >>)]

\* The result matchLanguage builds for the tag t of MatchStrings.
FormatTag[full \in BOOLEAN, t \in Tags] ==
  IF IsRoot(t) THEN Empty
  ELSE IF full THEN FormatFull(t)
  ELSE Base(t).s

\* What matchLanguage returns for the tag t of MatchStrings: (match, result),
\* and the tag itself.
LanguageResult[full \in BOOLEAN, t \in Tags] ==
  [match |-> ~IsRoot(t), result |-> FormatTag[full, t], tag |-> t]

\* Mutant of matchLanguage: full_locale is not looked at.
matchLanguage_AlwaysFull(cfg, matcher, h) ==
  LanguageResult[TRUE, MatchStrings[matcher, HeaderGet[h]].tag]

\* matchLanguage on the request carrying header h.
matchLanguage(cfg, matcher, h) ==
  LanguageResult[cfg.FullLocale, MatchStrings[matcher, HeaderGet[h]].tag]

\* Mutant of MatchCall: matchLanguage runs whether or not there are
\* match_languages.
MatchCall_AlwaysNegotiate(r) ==
  /\ phase = "serving"
  /\ pc[r] = "idle"
  /\ \E h \in HeaderIds :
       /\ hdr' = [hdr EXCEPT ![r] = h]
       /\ \E m \in {matchLanguage(Config, LanguageMatcher, h)} :
            /\ languageMatch' = [languageMatch EXCEPT ![r] = m.match]
            /\ locale' = [locale EXCEPT ![r] = m.result]
            /\ tag' = [tag EXCEPT ![r] = m.tag]
            /\ engineRuns' = [engineRuns EXCEPT ![r] = TRUE]
            /\ pc' = [pc EXCEPT ![r] = "decide"]
            /\ UNCHANGED ret
  /\ UNCHANGED <<phase, Config, LanguageMatcher, validateErr, reqVars>>

\* Match is called on request r, which carries header h, and runs up to the
\* return of matchLanguage: with no match_languages the request matches at
\* once, otherwise matchLanguage runs.
MatchCall(r) ==
  /\ phase = "serving"
  /\ pc[r] = "idle"
  /\ \E h \in HeaderIds :
       /\ hdr' = [hdr EXCEPT ![r] = h]
       /\ IF Len(Config.MatchLanguages) = 0
            THEN /\ languageMatch' = [languageMatch EXCEPT ![r] = TRUE]
                 /\ ret' = [ret EXCEPT ![r] = TRUE]
                 /\ pc' = [pc EXCEPT ![r] = "done"]
                 /\ UNCHANGED <<locale, tag, engineRuns>>
            ELSE \E m \in {matchLanguage(Config, LanguageMatcher, h)} :
                    /\ languageMatch' = [languageMatch EXCEPT ![r] = m.match]
                    /\ locale' = [locale EXCEPT ![r] = m.result]
                    /\ tag' = [tag EXCEPT ![r] = m.tag]
                    /\ engineRuns' = [engineRuns EXCEPT ![r] = TRUE]
                    /\ pc' = [pc EXCEPT ![r] = "decide"]
                    /\ UNCHANGED ret
  /\ UNCHANGED <<phase, Config, LanguageMatcher, validateErr, reqVars>>

VarKey(cfg) == <<"l", "a", "n", "g", "n", "e", "g", "_">> \o cfg.VarLanguage

\* caddyhttp.SetVar on the request's context.
SetVar(vs, key, value) == {v \in vs : v.name # key} \cup {[name |-> key, value |-> value]}

\* Mutant of MatchDecide: the fallback branch does not ask whether a
\* fallback_value is configured.
MatchDecide_NoFallbackCheck(r) ==
  /\ pc[r] = "decide"
  /\ IF languageMatch[r] /\ Len(Config.VarLanguage) > 0
       THEN /\ reqVars' = [reqVars EXCEPT ![r] = SetVar(@, VarKey(Config), locale[r])]
            /\ ret' = [ret EXCEPT ![r] = languageMatch[r]]
       ELSE IF Len(Config.VarLanguage) > 0
         THEN /\ reqVars' = [reqVars EXCEPT ![r] =
                               SetVar(@, VarKey(Config), Config.FallbackValue)]
              /\ ret' = [ret EXCEPT ![r] = TRUE]
         ELSE /\ ret' = [ret EXCEPT ![r] = languageMatch[r]]
              /\ UNCHANGED reqVars
  /\ pc' = [pc EXCEPT ![r] = "done"]
  /\ UNCHANGED <<phase, Config, LanguageMatcher, validateErr, hdr, languageMatch,
                 locale, tag, engineRuns>>

\* Mutant of MatchDecide: a matched locale is kept on the matcher as the
\* fallback of later requests.
MatchDecide_KeepsLocale(r) ==
  /\ pc[r] = "decide"
  /\ IF languageMatch[r] /\ Len(Config.VarLanguage) > 0
       THEN /\ reqVars' = [reqVars EXCEPT ![r] = SetVar(@, VarKey(Config), locale[r])]
            /\ ret' = [ret EXCEPT ![r] = languageMatch[r]]
            /\ Config' = [Config EXCEPT !.FallbackValue = locale[r]]
       ELSE IF Len(Config.FallbackValue) > 0 /\ Len(Config.VarLanguage) > 0
         THEN /\ reqVars' = [reqVars EXCEPT ![r] =
                               SetVar(@, VarKey(Config), Config.FallbackValue)]
              /\ ret' = [ret EXCEPT ![r] = TRUE]
              /\ UNCHANGED Config
         ELSE /\ ret' = [ret EXCEPT ![r] = languageMatch[r]]
              /\ UNCHANGED <<reqVars, Config>>
  /\ pc' = [pc EXCEPT ![r] = "done"]
  /\ UNCHANGED <<phase, LanguageMatcher, validateErr, hdr, languageMatch,
                 locale, tag, engineRuns>>

\* Match after matchLanguage returned: publish the locale, or fall back.
MatchDecide(r) ==
  /\ pc[r] = "decide"
  /\ IF languageMatch[r] /\ Len(Config.VarLanguage) > 0
       THEN /\ reqVars' = [reqVars EXCEPT ![r] = SetVar(@, VarKey(Config), locale[r])]
            /\ ret' = [ret EXCEPT ![r] = languageMatch[r]]
       ELSE IF Len(Config.FallbackValue) > 0 /\ Len(Config.VarLanguage) > 0
         THEN /\ reqVars' = [reqVars EXCEPT ![r] =
                               SetVar(@, VarKey(Config), Config.FallbackValue)]
              /\ ret' = [ret EXCEPT ![r] = TRUE]
         ELSE /\ ret' = [ret EXCEPT ![r] = languageMatch[r]]
              /\ UNCHANGED reqVars
  /\ pc' = [pc EXCEPT ![r] = "done"]
  /\ UNCHANGED <<phase, Config, LanguageMatcher, validateErr, hdr, languageMatch,
                 locale, tag, engineRuns>>

Next ==
  \/ UnmarshalCaddyfile
  \/ Provision
  \/ Validate
  \/ \E r \in Requests : MatchCall(r)
  \/ \E r \in Requests : MatchDecide(r)

Spec == Init /\ [][Next]_vars

\* ------------------------------------------------------------------------
\* Vocabulary of the properties
\* ------------------------------------------------------------------------

\* Request r has been through matchLanguage.
Negotiated(r) == pc[r] \in {"decide", "done"} /\ engineRuns[r]

\* The engine returned Root for request r.
EngineRoot(r) == Negotiated(r) /\ tag[r] = Und

\* The values published on request r under langneg_<name>.
Published(r) == {v.value : v \in reqVars[r]}

\* The weight texts that are no numbers, and those that are numbers <= 0.
MalformedWeights == {<<"a", "b", "c">>}

NonPositiveWeights == {<<"-", "1">>}

\* The weight of a header entry whose weight text is a number, in thousandths.
WeightOf(e) ==
  CASE e.q = NoQ -> 1000
    [] e.q = <<"0", ".", "4">> -> 400
    [] e.q = <<"0", ".", "8">> -> 800
    [] e.q = <<"0", ".", "9">> -> 900
    [] e.q = <<"-", "1">> -> 0 - 1000
    [] OTHER -> 0

HasMalformedWeight(h) == \E i \in 1..Len(Headers[h]) : Headers[h][i].q \in MalformedWeights

HasNonPositiveWeight(h) == \E i \in 1..Len(Headers[h]) : Headers[h][i].q \in NonPositiveWeights

HasWildcard(h) == \E i \in 1..Len(Headers[h]) : Headers[h][i].t = star

\* Every entry names a language range with a quality in (0, 1].
PlainHeader(h) ==
  /\ Headers[h] # << >>
  /\ \A i \in 1..Len(Headers[h]) :
       /\ Headers[h][i].t # star
       /\ Headers[h][i].q \notin MalformedWeights
       /\ WeightOf(Headers[h][i]) > 0

\* The header h without the entries whose quality is malformed or <= 0.
RemainingEntries(h) ==
  SelectSeq(Headers[h],
            LAMBDA e : e.q \notin MalformedWeights /\ e.q \notin NonPositiveWeights)

\* The tag the engine gives for the supported tags at hand and a header text.
EngineTag(entries) == MatchStrings[LanguageMatcher, RenderHeader[entries]].tag

\* The offered tags: the supported tags without the Und sentinel in front.
OfferedTags == {LanguageMatcher[i] : i \in 2..Len(LanguageMatcher)}

\* The specification's score of a range tag against an offered tag (doubled:
\* 1 wildcard, 2 language only, 4 language and region, 6 full match).
SpecScore(rt, ot) ==
  IF rt = Und \/ ot = Und THEN (IF rt = Und /\ ot = Und THEN 0 ELSE 1)
  ELSE IF rt.lang # ot.lang THEN 0
  ELSE IF rt.script # Empty /\ rt.script = ot.script
          /\ rt.region # Empty /\ rt.region = ot.region THEN 6
  ELSE IF (rt.script = Empty \/ ot.script = Empty)
          /\ rt.region # Empty /\ rt.region = ot.region THEN 4
  ELSE 2

\* The specification's total confidence of offered tag ot for header h: the
\* maximum over the ranges of score times quality.
SpecConfidence(h, ot) ==
  LET effective == {SpecScore(Make(Headers[h][i].t), ot) * WeightOf(Headers[h][i]) :
                      i \in 1..Len(Headers[h])}
  IN CHOOSE m \in effective : \A x \in effective : m >= x

\* The chosen tag as an offered tag (without the region override).
Chosen(r) == [tag[r] EXCEPT !.rg = Empty]

\* The position in header h of the range of highest quality, the first
\* listed among equals (entries of quality <= 0 do not count).
TopEntry(h) ==
  CHOOSE i \in 1..Len(Headers[h]) :
    /\ WeightOf(Headers[h][i]) > 0
    /\ \A j \in 1..Len(Headers[h]) :
         \/ WeightOf(Headers[h][i]) > WeightOf(Headers[h][j])
         \/ WeightOf(Headers[h][i]) = WeightOf(Headers[h][j]) /\ i <= j

\* ------------------------------------------------------------------------
\* Properties
\* ------------------------------------------------------------------------

\* C1: with match_languages non-empty, when the engine returns Root and a
\* fallback_value is configured, Match returns true and the resolved value is
\* the fallback_value, whatever full_locale and var_language are.
C1_FallbackAlwaysMatches ==
  \A r \in Requests :
    (pc[r] = "done" /\ EngineRoot(r) /\ Len(Config.MatchLanguages) > 0
       /\ Config.FallbackValue # Empty)
    => /\ ret[r] = TRUE
       /\ Config.VarLanguage # Empty => Published(r) = {Config.FallbackValue}

\* C2: with match_languages non-empty, when the engine returns Root and no
\* fallback_value is configured, Match returns false, the resolved value is
\* the empty string and no variable is written.
C2_RootNoFallback ==
  \A r \in Requests :
    (pc[r] = "done" /\ EngineRoot(r) /\ Len(Config.MatchLanguages) > 0
       /\ Config.FallbackValue = Empty)
    => ret[r] = FALSE /\ locale[r] = Empty /\ reqVars[r] = {}

C2_Witness ==
  \E r \in Requests :
    /\ pc[r] = "done" /\ EngineRoot(r) /\ Len(Config.MatchLanguages) > 0
    /\ Config.FallbackValue = Empty /\ Config.VarLanguage # Empty

\* C3: with match_languages empty, Match returns true for every request,
\* whatever its header, fallback_value and full_locale; the engine does not
\* run and no variable is written.
C3_NoOfferedTags ==
  \A r \in Requests :
    (pc[r] = "done" /\ Len(Config.MatchLanguages) = 0)
    => ret[r] = TRUE /\ ~engineRuns[r] /\ reqVars[r] = {} /\ locale[r] = Empty

C3_Witness ==
  \E r \in Requests :
    /\ pc[r] = "done" /\ Len(Config.MatchLanguages) = 0
    /\ HasMalformedWeight(hdr[r])
    /\ Config.FallbackValue # Empty /\ Config.FullLocale

C6_OnlyBadEntryDropped ==
  \A r \in Requests :
    (Negotiated(r) /\ (HasMalformedWeight(hdr[r]) \/ HasNonPositiveWeight(hdr[r])))
    => tag[r] = EngineTag(RemainingEntries(hdr[r]))

\* C6, amended: an entry whose quality is a number <= 0 is dropped alone and
\* negotiation proceeds with the remaining entries; an entry whose quality is
\* no number makes the whole header unusable, and the engine returns Root.
C6_BadWeightPolicy ==
  \A r \in Requests :
    Negotiated(r)
    => /\ HasMalformedWeight(hdr[r]) => tag[r] = Und /\ ~languageMatch[r] /\ locale[r] = Empty
       /\ (HasNonPositiveWeight(hdr[r]) /\ ~HasMalformedWeight(hdr[r]))
            => tag[r] = EngineTag(RemainingEntries(hdr[r]))

C6_Witness ==
  /\ \E r \in Requests :
       /\ Negotiated(r) /\ HasMalformedWeight(hdr[r])
       /\ EngineTag(RemainingEntries(hdr[r])) # Und
  /\ \E r \in Requests :
       /\ Negotiated(r) /\ HasNonPositiveWeight(hdr[r]) /\ languageMatch[r]

\* C7: a "*" range of non-zero quality is a genuine match against a
\* non-empty offered set: Match returns true with the value of an offered
\* tag, never the Root sentinel, without needing the fallback.
C7_WildcardMatches ==
  \A r \in Requests :
    (Negotiated(r) /\ Len(Config.MatchLanguages) > 0
       /\ HasWildcard(hdr[r]) /\ ~HasMalformedWeight(hdr[r]))
    => /\ languageMatch[r]
       /\ Chosen(r) \in OfferedTags \ {Und}
       /\ pc[r] = "done" => ret[r]

\* C8, as claimed: with full_locale false the resolved value of every
\* negotiation has no hyphen, whatever the header, offered set and fallback.
C8_NoHyphenAtAll ==
  \A r \in Requests :
    (pc[r] = "done" /\ ~Config.FullLocale)
    => ~HasHyphen(locale[r]) /\ \A v \in Published(r) : ~HasHyphen(v)

\* C8, amended: with full_locale false the value negotiated for a matched
\* tag has no hyphen; only a fallback_value, which is passed on as it is,
\* can bring one.
C8_NoHyphenUnlessFallback ==
  \A r \in Requests :
    (Negotiated(r) /\ ~Config.FullLocale)
    => /\ ~HasHyphen(locale[r])
       /\ \A v \in Published(r) : HasHyphen(v) => (~languageMatch[r] /\ v = Config.FallbackValue)

C8_Witness ==
  \E r \in Requests :
    /\ pc[r] = "done" /\ ~Config.FullLocale /\ languageMatch[r]
    /\ tag[r].region # Empty
    /\ Published(r) = {locale[r]}

\* C9: once provisioned, Match leaves the configuration and the offered set
\* alone, and the result of a call is a function of its header and the
\* configuration: calls with the same header, one after another or
\* interleaved, give the same result.
C9_SameHeaderSameResult ==
  /\ [](\A r1, r2 \in Requests :
          (pc[r1] # "idle" /\ pc[r2] # "idle" /\ hdr[r1] = hdr[r2])
          => /\ languageMatch[r1] = languageMatch[r2]
             /\ locale[r1] = locale[r2]
             /\ (pc[r1] = "done" /\ pc[r2] = "done")
                  => ret[r1] = ret[r2] /\ reqVars[r1] = reqVars[r2])
  /\ [][phase = "serving"
          => Config' = Config /\ LanguageMatcher' = LanguageMatcher]_vars

C9_Witness ==
  /\ pc[1] = "done" /\ pc[2] = "done" /\ hdr[1] = hdr[2]
  /\ languageMatch[1] /\ reqVars[1] # {}

\* C10: with full_locale true and a matched tag that is not Root, the
\* resolved value is the tag's exact components joined by hyphens in the
\* order language, region, script, the absent ones left out.
C10_FullLocaleOrder ==
  \A r \in Requests :
    (Negotiated(r) /\ Config.FullLocale /\ tag[r] # Und)
    => locale[r] = tag[r].lang
                   \o (IF tag[r].region # Empty THEN <<"-">> \o tag[r].region ELSE Empty)
                   \o (IF tag[r].script # Empty THEN <<"-">> \o tag[r].script ELSE Empty)

C10_Witness ==
  \E r \in Requests :
    /\ Negotiated(r) /\ Config.FullLocale
    /\ tag[r].lang # Empty /\ tag[r].region # Empty /\ tag[r].script # Empty

====
